---- MODULE Spec2Model ----
(***************************************************************************)
(* Model of the stewards' verdict handlers of simhub-stewards-v2:          *)
(*   - handler  (pages/api/analyze-intranet.js v2.2.0, steward mode),      *)
(*   - POST     (api/analyze-intranet.js, first snapshot,  "postA"),       *)
(*   - POST     (api/analyze-intranet.js, second snapshot, "postB").       *)
(* One behaviour is one request: Init draws the request, every await of    *)
(* the handler is a step, and the collaborators (title service, dataset,   *)
(* tips file, narrative service, deadline timer) answer nondeterministically.*)
(***************************************************************************)
EXTENDS Integers, Sequences, FiniteSets, TLC

VARIABLES
    kind,        \* which handler serves the request
    req,         \* the request (method, body, fields)
    pc,          \* position of the handler
    timerArmed,  \* setTimeout(() => controller.abort(), ...) pending
    aborted,     \* controller.signal.aborted
    title,       \* let title
    incidentKey, \* incidentKey / incidentType
    ruleMatch,   \* postA: index of the matched BMW rule, 0 = null
    finalFaultA, \* let finalFaultA / datasetAvgFaultA (a JS number)
    confidence,  \* let confidence
    matches,     \* let matches
    proTip,      \* let proTip
    i,           \* fetchWithRetry: loop index
    payload,     \* JSON.parse(raw), or why there is none
    baseline,    \* let verdict = {...} before the narrative overlay
    resp,        \* the response sent, status 0 = none yet
    did,         \* collaborators the handler has called
    failed,      \* collaborators whose call failed
    parsed,      \* const parsed = Papa.parse(text).data, the rows read
    delay        \* fetchWithRetry: the delay being awaited (ms), 0 = none

vars == <<kind, req, pc, timerArmed, aborted, title, incidentKey, ruleMatch,
          finalFaultA, confidence, matches, proTip, i, payload, baseline,
          resp, did, failed, parsed, delay>>

-----------------------------------------------------------------------------
(* Bounds of the model *)

\* longest dataset (rows) the fault calculation alone is run on
MaxRows == 4
\* longest dataset (rows) read in a full run of a handler
MaxPipeRows == 2
\* longest dataset (rows) the retrieval alone is run on
MaxRetrieveRows == 6

-----------------------------------------------------------------------------
(* JS numbers: finite rationals n/d, NaN, +Infinity, -Infinity *)

Fin(n) == [k |-> "fin", n |-> n, d |-> 1]
Rat(n, d) == [k |-> "fin", n |-> n, d |-> d]
NaN == [k |-> "nan", n |-> 0, d |-> 1]
PosInf == [k |-> "inf", n |-> 1, d |-> 1]
NegInf == [k |-> "inf", n |-> -1, d |-> 1]

IsNaN(x) == x.k = "nan"

\* parseFloat on the strings a CSV cell of the model can hold
ParseFloat(s) ==
    CASE s = "82" -> Fin(82)
      [] s = "45" -> Fin(45)
      [] s = "90" -> Fin(90)
      [] s = "150" -> Fin(150)
      [] s = "Infinity" -> PosInf
      [] s = "-Infinity" -> NegInf
      [] OTHER -> NaN

\* a + b on JS numbers (finite operands are integers here)
Add(a, b) ==
    IF a.k = "nan" \/ b.k = "nan" THEN NaN
    ELSE IF a.k = "inf" /\ b.k = "inf" THEN (IF a.n = b.n THEN a ELSE NaN)
    ELSE IF a.k = "inf" THEN a
    ELSE IF b.k = "inf" THEN b
    ELSE Fin(a.n + b.n)

RECURSIVE Reduce(_, _)
\* validFaults.reduce((a, b) => a + b, 0), acc starting at 0
Reduce(s, acc) ==
    IF s = <<>> THEN acc ELSE Reduce(Tail(s), Add(acc, Head(s)))

\* sum / length
DivBy(x, len) == IF x.k = "fin" THEN Rat(x.n, x.d * len) ELSE x

\* Math.round(x): floor(x + 1/2); NaN and the infinities are kept
Round(x) ==
    IF x.k = "fin" THEN Fin((2 * x.n + x.d) \div (2 * x.d)) ELSE x

\* Math.max(lo, x) and Math.min(hi, x) for an integer bound
MathMax(lo, x) ==
    IF x.k = "nan" THEN NaN
    ELSE IF x.k = "inf" THEN (IF x.n > 0 THEN x ELSE Fin(lo))
    ELSE IF x.n < lo * x.d THEN Fin(lo) ELSE x
MathMin(hi, x) ==
    IF x.k = "nan" THEN NaN
    ELSE IF x.k = "inf" THEN (IF x.n < 0 THEN x ELSE Fin(hi))
    ELSE IF x.n > hi * x.d THEN Fin(hi) ELSE x

\* 100 - x
Minus100(x) ==
    IF x.k = "fin" THEN Rat(100 * x.d - x.n, x.d)
    ELSE IF x.k = "inf" THEN (IF x.n > 0 THEN NegInf ELSE PosInf)
    ELSE NaN

\* csvFaultA * 0.7 + 50 * 0.3
Blend7030(x) ==
    IF x.k = "fin" THEN Rat(7 * x.n + 150 * x.d, 10 * x.d) ELSE x

-----------------------------------------------------------------------------
(* The reference dataset: rows of simracingstewards_28k.csv.  A row keeps   *)
(* what the handlers read of it: whether title and reason are non-empty,   *)
(* whether its text contains the incident key, how many terms of the       *)
(* context query it contains, and the fault_pct_driver_a cell.             *)

Row(t, r, kw, ctx, f) ==
    [title |-> t, reason |-> r, kw |-> kw, ctx |-> ctx, fault |-> f]

Rows == { Row(TRUE, TRUE, TRUE, 0, "82"),
          Row(TRUE, FALSE, FALSE, 1, "Infinity"),
          Row(TRUE, TRUE, TRUE, 1, "-Infinity"),
          Row(FALSE, TRUE, TRUE, 1, "90"),
          Row(TRUE, TRUE, TRUE, 0, "abc"),
          Row(TRUE, TRUE, TRUE, 0, "45") }

PipeRows == { Row(TRUE, TRUE, TRUE, 0, "82"),
              Row(TRUE, FALSE, FALSE, 1, "Infinity"),
              Row(TRUE, TRUE, TRUE, 1, "-Infinity"),
              Row(TRUE, TRUE, TRUE, 0, "abc") }

\* rows for the retrieval: two that tie on the key, one that scores on the
\* notes only, one that scores on both, one without a title
RetrieveRows == { Row(TRUE, TRUE, TRUE, 0, "82"),
                  Row(TRUE, TRUE, TRUE, 0, "45"),
                  Row(TRUE, FALSE, FALSE, 1, "abc"),
                  Row(TRUE, TRUE, TRUE, 1, "90"),
                  Row(FALSE, TRUE, TRUE, 1, "82") }

SeqsUpTo(S, n) == UNION { [1..m -> S] : m \in 0..n }

RetrieveDatasets == SeqsUpTo(RetrieveRows, MaxRetrieveRows)

Datasets == SeqsUpTo(Rows, MaxRows)
PipeDatasets == SeqsUpTo(PipeRows, MaxPipeRows)

-----------------------------------------------------------------------------
(* Retrieval and fault calculation *)

\* if (!row.title) continue;  (postA, postB: !row.title || !row.reason)
Eligible(k, row) ==
    IF k = "handler" THEN row.title ELSE row.title /\ row.reason

\* the score a row gets: handler lines 98-100, postA 102-104, postB 259-260
Score(k, row, humanInput) ==
    CASE k = "handler" ->
           (IF row.kw THEN 10 ELSE 0)
           + (IF humanInput # "" /\ row.ctx > 0 THEN 8 ELSE 0)
      [] k = "postA" -> 3 * row.ctx + (IF row.kw THEN 5 ELSE 0)
      [] OTHER -> row.ctx + (IF row.kw THEN 2 ELSE 0)

RECURSIVE Scored(_, _, _)
\* for (const row of parsed) { ... if (score > 0) matches.push({...row, score}) }
Scored(k, ds, humanInput) ==
    IF ds = <<>> THEN <<>>
    ELSE LET row == Head(ds)
             sc == Score(k, row, humanInput)
             rest == Scored(k, Tail(ds), humanInput)
         IN IF Eligible(k, row) /\ sc > 0
            THEN <<[row |-> row, score |-> sc]>> \o rest
            ELSE rest

RECURSIVE InsertByScoreUnstable(_, _)
\* m put before the entries of its own score: a sort that is not stable
InsertByScoreUnstable(m, s) ==
    IF s = <<>> THEN <<m>>
    ELSE IF Head(s).score > m.score
         THEN <<Head(s)>> \o InsertByScoreUnstable(m, Tail(s))
         ELSE <<m>> \o s

RECURSIVE InsertByScore(_, _)
\* m put behind every entry whose score is not smaller (a stable insertion)
InsertByScore(m, s) ==
    IF s = <<>> THEN <<m>>
    ELSE IF Head(s).score >= m.score
         THEN <<Head(s)>> \o InsertByScore(m, Tail(s))
         ELSE <<m>> \o s

RECURSIVE SortDesc(_)
\* matches.sort((a, b) => b.score - a.score): Array.prototype.sort is stable
SortDesc(s) ==
    IF s = <<>> THEN <<>>
    ELSE InsertByScore(s[Len(s)], SortDesc(SubSeq(s, 1, Len(s) - 1)))

\* matches.slice(0, 5)
SliceLimit == 5
Slice5(s) == SubSeq(s, 1, IF Len(s) < SliceLimit THEN Len(s) ELSE SliceLimit)

\* the matches of a dataset: scored, sorted, sliced
Retrieve(k, ds, humanInput) == Slice5(SortDesc(Scored(k, ds, humanInput)))

RECURSIVE ValidFaults(_)
\* matches.map(m => parseFloat(m.fault_pct_driver_a)).filter(f => !isNaN(f))
ValidFaults(ms) ==
    IF ms = <<>> THEN <<>>
    ELSE LET f == ParseFloat(Head(ms).row.fault)
         IN IF IsNaN(f) THEN ValidFaults(Tail(ms))
            ELSE <<f>> \o ValidFaults(Tail(ms))

\* line 107 dividing by matches.length, the non-numeric cells counted as 0
CsvFaultAOverAll(ms) ==
    LET vf == ValidFaults(ms)
    IN IF Len(vf) > 0 THEN DivBy(Reduce(vf, Fin(0)), Len(ms))
       ELSE Fin(60)

\* validFaults.length > 0 ? validFaults.reduce(...) / validFaults.length : 60
DefaultCsvFault == 60
CsvFaultA(ms) ==
    LET vf == ValidFaults(ms)
    IN IF Len(vf) > 0 THEN DivBy(Reduce(vf, Fin(0)), Len(vf))
       ELSE Fin(DefaultCsvFault)

\* the thresholds of line 109 compared with > instead of >=
ConfidenceOfStrict(n) ==
    IF n > 4 THEN "Very High"
    ELSE IF n > 2 THEN "High"
    ELSE IF n > 1 THEN "Medium"
    ELSE "Low"

\* handler line 109: the confidence label of a match count
ConfidenceOf(n) ==
    IF n >= 4 THEN "Very High"
    ELSE IF n >= 2 THEN "High"
    ELSE IF n >= 1 THEN "Medium"
    ELSE "Low"

\* handler line 115: Math.min(98, Math.max(2, finalFaultA))
ClampLo == 2
ClampHi == 98
Clamp(x) == MathMin(ClampHi, MathMax(ClampLo, x))

\* handler line 86: Math.round(overrideFaultA), the override given in halves
RoundOverride(x2) == Round(Rat(x2, 2))

\* handler line 108: Math.round(csvFaultA * 0.7 + 50 * 0.3)
BlendCsv(ms) == Round(Blend7030(CsvFaultA(ms)))

-----------------------------------------------------------------------------
(* JSON values: t is the type, s the text of a string, v the value of a    *)
(* number; a string `${v}%` has type "pct" and keeps v.                    *)

Absent == [t |-> "absent", s |-> "", v |-> Fin(0)]
Null == [t |-> "null", s |-> "", v |-> Fin(0)]
Str(s) == [t |-> "str", s |-> s, v |-> Fin(0)]
Pct(x) == [t |-> "pct", s |-> "%", v |-> x]
Num(x) == [t |-> "num", s |-> "", v |-> x]
Obj == [t |-> "obj", s |-> "", v |-> Fin(0)]
Arr == [t |-> "arr", s |-> "", v |-> Fin(0)]

IsString(j) == j.t \in {"str", "pct"}

\* JS truthiness of a JSON value (the left side of ||)
Truthy(j) ==
    CASE j.t \in {"absent", "null"} -> FALSE
      [] j.t = "str" -> j.s # ""
      [] j.t = "num" -> ~(j.v.k = "nan" \/ (j.v.k = "fin" /\ j.v.n = 0))
      [] OTHER -> TRUE

\* parseInt(text.replace('%', '')) of a string
ParseInt(j) ==
    IF j.t = "pct" /\ j.v.k = "fin" THEN Fin(j.v.n \div j.v.d) ELSE NaN

\* the keys a verdict can have; faultA and faultB are the two entries of fault
TextFields == {"rule", "car_identification", "explanation", "pro_tip",
               "confidence"}
VerdictFields == TextFields \cup
    {"fault", "faultA", "faultB", "video_title", "overtake_tip",
     "defend_tip", "spotter_advice", "flags"}

NoFields == [f \in VerdictFields |-> Absent]

\* the keys an object has
KeysOf(o) == {f \in VerdictFields : o[f].t # "absent"}

-----------------------------------------------------------------------------
(* What the narrative service can answer: raw is empty, is no JSON, or     *)
(* parses to null, to a number or to an object.                            *)

GoodPayload ==
    [NoFields EXCEPT
        !["rule"] = Str("Rule 5: avoidable contact"),
        !["fault"] = Obj,
        !["faultA"] = Pct(Fin(70)),
        !["faultB"] = Pct(Fin(30)),
        !["car_identification"] = Str("Car A is the attacker."),
        !["explanation"] = Str("In this incident Car A braked too late."),
        !["pro_tip"] = Str("Leave a car's width."),
        !["confidence"] = Str("High")]

\* a present field that is not a non-empty string
BadValues == {Null, Str(""), Num(Fin(42))}

FaultPair(f, a, b) ==
    [GoodPayload EXCEPT !["fault"] = f, !["faultA"] = a, !["faultB"] = b]

PayloadObjects ==
    {GoodPayload, NoFields}
    \cup {[GoodPayload EXCEPT ![f] = x] : f \in TextFields,
                                          x \in BadValues \cup {Absent}}
    \cup {FaultPair(Obj, Pct(Fin(70)), Pct(Fin(70))),
          FaultPair(Obj, Str("mostly"), Pct(Fin(30))),
          FaultPair(Obj, Num(Fin(70)), Num(Fin(30))),
          FaultPair(Obj, Pct(Fin(70)), Absent),
          FaultPair(Null, Absent, Absent),
          FaultPair(Absent, Absent, Absent)}

Payloads ==
    {[kind |-> "object", obj |-> o] : o \in PayloadObjects}
    \cup {[kind |-> k, obj |-> NoFields] :
            k \in {"empty", "invalid", "null", "number"}}

NoPayload == [kind |-> "none", obj |-> NoFields]

\* JSON.parse(raw) returns instead of throwing
Parses(p) == p.kind \in {"object", "null", "number"}

-----------------------------------------------------------------------------
(* Requests *)

Kinds == {"handler", "postA", "postB"}

\* a field the body does not have
Missing == "<undefined>"

WatchUrl == "https://www.youtube.com/watch?v=dQw4w9WgXcQ"
PlainUrl == "https://example.com/clip"

\* z.string().url()
IsUrl(u) == u \in {WatchUrl, PlainUrl}

\* url.match(/(?:v=|youtu\.be\/)([0-9A-Za-z_-]{11})/) resp. /v=(...)/
HasVideoId(k, u) == u = WatchUrl

NoOverride == [present |-> FALSE, x2 |-> 0]
\* overrideFaultA, in halves: x2 = 2 * overrideFaultA
Override(x2) == [present |-> TRUE, x2 |-> x2]

\* z.coerce.number().min(0).max(100).optional().nullable()
OverrideOk(o) == ~o.present \/ (0 <= o.x2 /\ o.x2 <= 200)

\* schema.parse(body) returns instead of throwing
SchemaOk(k, r) ==
    IF k = "handler"
    THEN /\ r.body = "object"
         /\ IsUrl(r.url)
         /\ r.incidentType \notin {Missing, ""}
         /\ OverrideOk(r.override)
    ELSE r.body = "object" /\ IsUrl(r.url)

Notes == {"", "late lunge from far back"}
Labels == {"Divebomb / Late lunge", "Mystery label"}
Overrides == {NoOverride} \cup
    {Override(x) : x \in {0, 3, 5, 121, 197, 200}}

BaseRequest ==
    [method |-> "POST", body |-> "object", url |-> PlainUrl,
     incidentType |-> "Divebomb / Late lunge", stewardNotes |-> "",
     override |-> NoOverride, apiKey |-> TRUE]

StewardRequests ==
    {[BaseRequest EXCEPT !.url = u, !.incidentType = l, !.stewardNotes = n,
                         !.override = o] :
        u \in {WatchUrl, PlainUrl}, l \in Labels, n \in Notes, o \in Overrides}
    \cup {[BaseRequest EXCEPT !.url = u] : u \in {"not a url", Missing}}
    \cup {[BaseRequest EXCEPT !.incidentType = l] : l \in {"", Missing}}
    \cup {[BaseRequest EXCEPT !.override = Override(x)] : x \in {300, -2}}
    \cup {[BaseRequest EXCEPT !.body = "malformed"],
          [BaseRequest EXCEPT !.method = "GET"]}

PostRequests ==
    {[BaseRequest EXCEPT !.url = u, !.body = b, !.apiKey = e] :
        u \in {WatchUrl, PlainUrl, "not a url", Missing},
        b \in {"object", "malformed"}, e \in BOOLEAN}

RequestsOf(k) == IF k = "handler" THEN StewardRequests ELSE PostRequests

\* const humanInput = stewardNotes.trim() || description.trim()
HumanInput(r) == r.stewardNotes

-----------------------------------------------------------------------------
(* Classification *)

TypeMapLabels ==
    {"Divebomb / Late lunge", "Weave / Block / Defending move",
     "Unsafe rejoin", "Vortex exit / Draft lift-off",
     "Netcode / Lag / Teleport", "Used as a barrier / Squeeze",
     "Pit-lane incident", "Start-line chaos / T1 pile-up",
     "Intentional wreck / Revenge", "Racing incident (no fault)"}

typeMap(l) ==
    CASE l = "Divebomb / Late lunge" -> "divebomb"
      [] l = "Weave / Block / Defending move" -> "weave block"
      [] l = "Unsafe rejoin" -> "unsafe rejoin"
      [] l = "Vortex exit / Draft lift-off" -> "vortex exit"
      [] l = "Netcode / Lag / Teleport" -> "netcode"
      [] l = "Used as a barrier / Squeeze" -> "used as barrier"
      [] l = "Pit-lane incident" -> "pit-lane incident"
      [] l = "Start-line chaos / T1 pile-up" -> "t1 chaos"
      [] l = "Intentional wreck / Revenge" -> "intentional wreck"
      [] l = "Racing incident (no fault)" -> "racing incident"

\* typeMap is an object literal: typeMap[l] also finds what the object
\* inherits from Object.prototype
ObjectPrototypeKeys ==
    {"constructor", "toString", "toLocaleString", "valueOf", "hasOwnProperty",
     "isPrototypeOf", "propertyIsEnumerable", "__proto__",
     "__defineGetter__", "__defineSetter__", "__lookupGetter__",
     "__lookupSetter__"}

\* typeMap[l] for an inherited l: a function, or Object.prototype itself for
\* "__proto__"; a truthy value that is no string, written here by its path
Inherited(l) == "Object.prototype." \o l

\* const incidentKey = typeMap[userType] || "general contact"
IncidentKeyOf(l) ==
    IF l \in TypeMapLabels THEN typeMap(l)
    ELSE IF l \in ObjectPrototypeKeys THEN Inherited(l)
    ELSE "general contact"

\* the titles the title service serves; "" is an answer without a title
TitlesServed == {"Late dive into T1", "Monza lap 3", ""}

DefaultTitle(k) ==
    CASE k = "handler" -> "Sim racing incident"
      [] k = "postA" -> "incident"
      [] OTHER -> "unknown incident"

\* data.title || <fallback>
TitleFallback(k) ==
    CASE k = "handler" -> "Sim racing incident"
      [] k = "postA" -> "incident"
      [] OTHER -> "unknown"

\* the keywords of the classifiers that title.toLowerCase() contains
TitleWords(t) ==
    IF t = "Late dive into T1" THEN {"dive", "late"} ELSE {}

\* postA lines 52-60, postB lines 235-240
ClassifyTitle(k, t) ==
    LET w == TitleWords(t)
    IN IF w \cap {"dive", "brake"} # {} THEN "divebomb"
       ELSE IF w \cap {"vortex", "exit"} # {} THEN "vortex exit"
       ELSE IF w \cap {"weave", "block"} # {} THEN "weave block"
       ELSE IF w \cap {"rejoin", "spin"} # {} THEN "unsafe rejoin"
       ELSE IF w \cap {"apex", "cut"} # {} THEN "track limits"
       ELSE IF k = "postA" /\ w \cap {"netcode", "lag", "teleport"} # {}
            THEN "netcode"
       ELSE IF k = "postA" /\ w \cap {"barrier", "wall", "used you"} # {}
            THEN "used as barrier"
       ELSE IF k = "postA" /\ {"pit", "maneuver"} \subseteq w
            THEN "pit maneuver"
       ELSE "general contact"

\* postA: BMW_RULES, keywords and faultA of each rule
BmwRules ==
    << [keywords |-> {"dive", "late", "lunge", "brake", "underbraking",
                      "punting"}, faultA |-> 90,
        desc |-> "Under-braking and punting (BMW SIM GT Rule 5)"],
       [keywords |-> {"block", "weave", "reactionary"}, faultA |-> 20,
        desc |-> "Blocking (BMW SIM GT Rule 2)"],
       [keywords |-> {"rejoin", "off-track", "spin"}, faultA |-> 85,
        desc |-> "Unsafe rejoin (BMW SIM GT Rule 7)"],
       [keywords |-> {"overlap", "apex", "door open"}, faultA |-> 95,
        desc |-> "Side-by-side rule violation (BMW SIM GT Rule 4)"],
       [keywords |-> {"netcode", "lag", "teleport"}, faultA |-> 50,
        desc |-> "Netcode-related incident"],
       [keywords |-> {"barrier", "used you"}, faultA |-> 95,
        desc |-> "Using another car as a barrier"],
       [keywords |-> {"pit maneuver"}, faultA |-> 98,
        desc |-> "Pit maneuver (Intentional wrecking)"] >>

\* the first rule one of whose keywords the title contains, 0 when none
RuleMatchOf(t) ==
    LET hit == {n \in 1..Len(BmwRules) :
                    BmwRules[n].keywords \cap TitleWords(t) # {}}
    IN IF hit = {} THEN 0
       ELSE CHOOSE n \in hit : \A m \in hit : n <= m

\* ruleMatch?.faultA || 60
RuleFaultA(rm) == IF rm = 0 THEN 60 ELSE BmwRules[rm].faultA

\* heuristicMap[incidentType] || 70
HeuristicFaultA(t) ==
    CASE t = "divebomb" -> 92
      [] t = "vortex exit" -> 88
      [] t = "weave block" -> 15
      [] t = "unsafe rejoin" -> 80
      [] t = "track limits" -> 70
      [] t = "netcode" -> 50
      [] t = "used as barrier" -> 95
      [] t = "pit maneuver" -> 98
      [] OTHER -> 70

\* postA line 112: Math.round(csv * 0.4 + rule * 0.4 + heuristic * 0.2)
BlendPostA(ms, rm, t) ==
    LET c == CsvFaultA(ms)
    IN IF c.k = "fin"
       THEN Round(Rat(4 * c.n + (4 * RuleFaultA(rm) + 2 * HeuristicFaultA(t)) * c.d,
                      10 * c.d))
       ELSE c

\* postA line 118: Math.min(98, Math.max(5, finalFaultA))
ClampPostA(x) == MathMin(98, MathMax(5, x))

\* postA line 119
ConfidencePostA(n, rm) ==
    IF n >= 3 /\ rm # 0 THEN "High"
    ELSE IF n >= 1 \/ rm # 0 THEN "Medium"
    ELSE "Low"

-----------------------------------------------------------------------------
(* Verdicts *)

\* userType.toLowerCase()
LowerCase(l) ==
    CASE l = "Divebomb / Late lunge" -> "divebomb / late lunge"
      [] l = "Mystery label" -> "mystery label"

\* handler lines 133-141: [carARole, carBRole]
CarRoles(key) ==
    CASE key = "weave block" -> <<"the defending car", "the overtaking car">>
      [] key = "unsafe rejoin" -> <<"the rejoining car", "the on-track car">>
      [] key = "netcode" -> <<"the teleporting car", "the affected car">>
      [] key = "used as barrier" ->
           <<"the car using another as a barrier", "the car used as a barrier">>
      [] key = "intentional wreck" -> <<"the aggressor", "the victim">>
      [] key = "racing incident" -> <<"Car A", "Car B">>
      [] OTHER -> <<"the overtaking car", "the defending car">>

\* handler line 145, carA and carB empty
CarIdentification(key) ==
    "Car A is " \o CarRoles(key)[1] \o ". Car B is " \o CarRoles(key)[2] \o "."

DefaultProTip == "Both drivers can improve situational awareness."
\* the pro tips the tips file offers for the incident
TipsServed == {"Brake earlier when attacking."}

\* the fault object { "Car A": `${a}%`, "Car B": `${100 - a}%` } in a verdict
WithFault(v, a) ==
    [v EXCEPT !["fault"] = Obj, !["faultA"] = Pct(a),
              !["faultB"] = Pct(Minus100(a))]

\* handler lines 193-200: let verdict = {...}
HandlerVerdict(userType, key, faultA, tip, conf) ==
    WithFault(
      [NoFields EXCEPT
        !["rule"] = Str("iRacing Sporting Code / ACC LFM Regulations"),
        !["car_identification"] = Str(CarIdentification(key)),
        !["explanation"] = Str("In this " \o LowerCase(userType)
            \o ", contact occurred between Car A and Car B.\n\n" \o tip),
        !["pro_tip"] = Str(tip),
        !["confidence"] = Str(conf)], faultA)

\* postA line 120: ruleMatch?.desc || 'iRacing Sporting Code'
SelectedRule(rm) ==
    IF rm = 0 THEN "iRacing Sporting Code" ELSE BmwRules[rm].desc

\* postA lines 169-181
PostAVerdict(rm, faultA, conf) ==
    WithFault(
      [NoFields EXCEPT
        !["rule"] = Str(SelectedRule(rm)),
        !["car_identification"] = Str("Car A: Overtaker. Car B: Defender."),
        !["explanation"] = Str("Contact occurred. Overtaker must pass safely."),
        !["overtake_tip"] = Str("Wait for overlap."),
        !["defend_tip"] = Str("Hold your line."),
        !["spotter_advice"] = Obj,
        !["confidence"] = Str(conf)], faultA)

\* incidentType.charAt(0).toUpperCase() + incidentType.slice(1)
Capitalize(type) ==
    CASE type = "divebomb" -> "Divebomb"
      [] type = "vortex exit" -> "Vortex exit"
      [] type = "weave block" -> "Weave block"
      [] type = "unsafe rejoin" -> "Unsafe rejoin"
      [] type = "track limits" -> "Track limits"
      [] type = "general contact" -> "General contact"

\* postB lines 371-387
PostBVerdict(type, faultA, conf) ==
    WithFault(
      [NoFields EXCEPT
        !["rule"] = Str(Capitalize(type) \o " violation"),
        !["car_identification"] = Str("Car A: Overtaker. Car B: Defender."),
        !["explanation"] = Str("Analyzed via dataset - " \o type
                               \o " style contact."),
        !["overtake_tip"] = Str("Earn the apex with overlap"),
        !["defend_tip"] = Str("Predictable line, no gifts"),
        !["spotter_advice"] = Obj,
        !["confidence"] = Str(conf),
        !["flags"] = Arr], faultA)

\* the verdicts of the catch blocks: handler 212-219, postA 197-202,
\* postB 417-427
ErrorVerdict(k) ==
    CASE k = "handler" ->
           [NoFields EXCEPT
             !["rule"] = Str("Error"),
             !["fault"] = Obj,
             !["faultA"] = Str("-"),
             !["faultB"] = Str("-"),
             !["car_identification"] = Str("Processing failed"),
             !["explanation"] = Str("Something went wrong - try again."),
             !["pro_tip"] = Str(""),
             !["confidence"] = Str("N/A")]
      [] k = "postA" ->
           [NoFields EXCEPT
             !["rule"] = Str("Error"),
             !["fault"] = Obj,
             !["faultA"] = Pct(Fin(0)),
             !["faultB"] = Pct(Fin(0)),
             !["explanation"] = Str("Server error"),
             !["confidence"] = Str("N/A")]
      [] OTHER ->
           [NoFields EXCEPT
             !["rule"] = Str("Analysis Error"),
             !["fault"] = Obj,
             !["faultA"] = Pct(Fin(0)),
             !["faultB"] = Pct(Fin(0)),
             !["car_identification"] = Str(""),
             !["explanation"] = Str("Error"),
             !["overtake_tip"] = Str(""),
             !["defend_tip"] = Str(""),
             !["spotter_advice"] = Obj,
             !["confidence"] = Str("N/A"),
             !["flags"] = Arr]

\* Object.assign(verdict, parsed) and { ...verdict, ...parsed }: every key of
\* parsed replaces the verdict's; fault is replaced as a whole
Overlay(v, o) ==
    [f \in VerdictFields |->
        IF f \in {"faultA", "faultB"}
        THEN (IF o["fault"].t # "absent" THEN o[f] ELSE v[f])
        ELSE (IF o[f].t # "absent" THEN o[f] ELSE v[f])]

\* line 202 with a catch block that keeps the raw text as the explanation
AssignParsedKeepRaw(v, p) ==
    IF p.kind = "object" THEN Overlay(v, p.obj)
    ELSE IF Parses(p) THEN v
    ELSE [v EXCEPT !["explanation"] = Str("raw")]

\* handler line 202: try { Object.assign(verdict, JSON.parse(raw)) } catch {}
AssignParsed(v, p) ==
    IF p.kind = "object" THEN Overlay(v, p.obj) ELSE v

\* postB lines 393-394: (parsed.fault?.[key] || '').replace('%', '') throws
\* when the entry is truthy and no string
ReplaceThrows(o) ==
    \E f \in {"faultA", "faultB"} : Truthy(o[f]) /\ ~IsString(o[f])

\* postB line 395
SumValid(o) ==
    LET a == ParseInt(o["faultA"])
        b == ParseInt(o["faultB"])
    IN ~IsNaN(a) /\ ~IsNaN(b) /\ a.n + b.n = 100

\* postB lines 397-407, for an object or a number parsed
ValidatedMerge(v, o) ==
    [f \in VerdictFields |->
        CASE f \in {"fault", "faultA", "faultB"} ->
               IF SumValid(o) THEN o[f] ELSE v[f]
          [] f = "flags" -> IF o[f].t = "arr" THEN o[f] ELSE v[f]
          [] f \in {"pro_tip", "video_title"} -> Absent
          [] OTHER -> IF Truthy(o[f]) THEN o[f] ELSE v[f]]

\* postB lines 389-410
ReconcilePostB(v, p) ==
    CASE p.kind \in {"empty", "invalid", "null"} -> v
      [] p.kind = "number" -> ValidatedMerge(v, NoFields)
      [] OTHER -> IF ReplaceThrows(p.obj) THEN v ELSE ValidatedMerge(v, p.obj)

\* the verdict of a 200 response
Reconcile(k, v, p, t) ==
    CASE k = "handler" -> [AssignParsed(v, p) EXCEPT !["video_title"] = Str(t)]
      [] k = "postA" -> AssignParsed(v, p)
      [] OTHER -> ReconcilePostB(v, p)

-----------------------------------------------------------------------------
(* The handlers, one action per step between two awaits *)

NoResponse ==
    [status |-> 0, body |-> "none", verdict |-> NoFields, matches |-> <<>>]

Response(st, body, v, ms) ==
    [status |-> st, body |-> body, verdict |-> v, matches |-> ms]

\* line 80: let finalFaultA = 60
InitialFaultA == 60
\* postB line 248: let datasetAvgFaultA = 81
FallbackAvgPostB == 81
\* fetchWithRetry(url, options, retries = 3)
Retries == 3

ReadFailed == [ok |-> FALSE, data |-> <<>>]
ReadOk(ds) == [ok |-> TRUE, data |-> ds]

\* handler lines 79-115: finalFaultA, confidence and matches of a request,
\* given what reading the dataset gave
FaultCalculation(r, read) ==
    LET c == IF r.override.present
             THEN [f |-> RoundOverride(r.override.x2),
                   c |-> "Human Override", m |-> <<>>]
             ELSE IF ~read.ok
             THEN [f |-> Fin(InitialFaultA), c |-> "Low", m |-> <<>>]
             ELSE LET ms == Retrieve("handler", read.data, HumanInput(r))
                  IN [f |-> BlendCsv(ms), c |-> ConfidenceOf(Len(ms)),
                      m |-> ms]
    IN [finalFaultA |-> Clamp(c.f), confidence |-> c.c, matches |-> c.m]

\* postA lines 62-119
FaultCalculationPostA(t, read) ==
    LET rm == RuleMatchOf(t)
        ms == IF read.ok THEN Retrieve("postA", read.data, t) ELSE <<>>
        f == IF read.ok THEN BlendPostA(ms, rm, ClassifyTitle("postA", t))
             ELSE Fin(InitialFaultA)
    IN [finalFaultA |-> ClampPostA(f),
        confidence |-> ConfidencePostA(Len(ms), rm), matches |-> ms]

\* the verdict the handler builds before it looks at the narrative
BaselineOf ==
    CASE kind = "handler" ->
           HandlerVerdict(req.incidentType, incidentKey, finalFaultA, proTip,
                          confidence)
      [] kind = "postA" -> PostAVerdict(ruleMatch, finalFaultA, confidence)
      [] OTHER -> PostBVerdict(incidentKey, finalFaultA, confidence)

Init ==
    /\ kind \in Kinds
    /\ req \in RequestsOf(kind)
    /\ pc = "start"
    /\ timerArmed = FALSE
    /\ aborted = FALSE
    /\ title = DefaultTitle(kind)
    /\ incidentKey = "general contact"
    /\ ruleMatch = 0
    /\ finalFaultA = Fin(InitialFaultA)
    /\ confidence = "Low"
    /\ matches = <<>>
    /\ proTip = DefaultProTip
    /\ i = 0
    /\ payload = NoPayload
    /\ baseline = NoFields
    /\ resp = NoResponse
    /\ did = {}
    /\ failed = {}
    /\ parsed = <<>>
    /\ delay = 0

\* the catch block of a handler: clearTimeout(timeout), then the 500 response
Catch ==
    /\ timerArmed' = FALSE
    /\ resp' = Response(500, "verdict", ErrorVerdict(kind), <<>>)
    /\ pc' = "done"

\* the handler is entered: method check, timer, body and schema
Receive ==
    /\ pc = "start"
    /\ \/ /\ kind = "handler" /\ req.method # "POST"
          /\ resp' = Response(405, "empty", NoFields, <<>>)
          /\ pc' = "done"
          /\ UNCHANGED timerArmed
       \/ /\ ~(kind = "handler" /\ req.method # "POST")
          /\ SchemaOk(kind, req)
          /\ timerArmed' = TRUE
          /\ pc' = "title"
          /\ UNCHANGED resp
       \/ /\ ~(kind = "handler" /\ req.method # "POST")
          /\ ~SchemaOk(kind, req)
          /\ IF kind = "postA"
             THEN /\ timerArmed' = TRUE
                  /\ resp' = Response(400, "error", NoFields, <<>>)
                  /\ pc' = "done"
             ELSE Catch
    /\ UNCHANGED <<parsed, delay,
                   kind, req, aborted, title, incidentKey, ruleMatch,
                   finalFaultA, confidence, matches, proTip, i, payload,
                   baseline, did, failed>>

\* the oEmbed fetch is started, or skipped without a video id
TitleStart ==
    /\ pc = "title"
    /\ IF ~HasVideoId(kind, req.url)
       THEN pc' = "fault" /\ UNCHANGED <<did, failed>>
       ELSE IF aborted
       THEN pc' = "fault" /\ failed' = failed \cup {"title"} /\ UNCHANGED did
       ELSE pc' = "titleWait" /\ did' = did \cup {"title"} /\ UNCHANGED failed
    /\ UNCHANGED <<parsed, delay,
                   kind, req, timerArmed, aborted, title, incidentKey,
                   ruleMatch, finalFaultA, confidence, matches, proTip, i,
                   payload, baseline, resp>>

\* the oEmbed fetch settles
TitleDone ==
    /\ pc = "titleWait"
    /\ \/ /\ ~aborted
          /\ \E t \in TitlesServed :
                title' = IF t = "" THEN TitleFallback(kind) ELSE t
          /\ incidentKey' = IF kind = "postB" THEN ClassifyTitle(kind, title')
                            ELSE incidentKey
          /\ UNCHANGED failed
       \/ /\ ~aborted
          /\ incidentKey' = IF kind = "postB" THEN ClassifyTitle(kind, title)
                            ELSE incidentKey
          /\ failed' = failed \cup {"title"}
          /\ UNCHANGED title
       \/ /\ failed' = failed \cup {"title"}
          /\ UNCHANGED <<title, incidentKey>>
    /\ pc' = "fault"
    /\ UNCHANGED <<parsed, delay,
                   kind, req, timerArmed, aborted, ruleMatch, finalFaultA,
                   confidence, matches, proTip, i, payload, baseline, resp,
                   did>>

\* the steward handler computing its fault from the title fetched, as the
\* first POST snapshot does
FaultCalcTitled(D) ==
    /\ pc = "fault"
    /\ kind = "handler"
    /\ \E read \in {ReadFailed} \cup {ReadOk(ds) : ds \in D} :
          LET c == FaultCalculationPostA(title, read)
          IN /\ finalFaultA' = c.finalFaultA
             /\ confidence' = c.confidence
             /\ matches' = c.matches
             /\ failed' = IF read.ok THEN failed ELSE failed \cup {"csv"}
             /\ parsed' = IF read.ok THEN read.data ELSE <<>>
    /\ did' = did \cup {"csv"}
    /\ incidentKey' = IncidentKeyOf(req.incidentType)
    /\ pc' = "tip"
    /\ UNCHANGED <<ruleMatch, timerArmed, resp, delay, kind, req, aborted,
                   title, proTip, i, payload, baseline>>

\* the synchronous fault calculation, the dataset read from D
FaultCalc(D) ==
    /\ pc = "fault"
    /\ \/ /\ kind = "handler"
          /\ \E read \in {ReadFailed} \cup {ReadOk(ds) : ds \in D} :
                LET c == FaultCalculation(req, read)
                IN /\ finalFaultA' = c.finalFaultA
                   /\ confidence' = c.confidence
                   /\ matches' = c.matches
                   /\ did' = IF req.override.present THEN did
                             ELSE did \cup {"csv"}
                   /\ failed' = IF req.override.present \/ read.ok THEN failed
                                ELSE failed \cup {"csv"}
                   /\ parsed' = IF req.override.present \/ ~read.ok THEN <<>>
                                ELSE read.data
          /\ incidentKey' = IncidentKeyOf(req.incidentType)
          /\ pc' = "tip"
          /\ UNCHANGED <<ruleMatch, timerArmed, resp>>
       \/ /\ kind = "postA"
          /\ \E read \in {ReadFailed} \cup {ReadOk(ds) : ds \in D} :
                LET c == FaultCalculationPostA(title, read)
                IN /\ finalFaultA' = c.finalFaultA
                   /\ confidence' = c.confidence
                   /\ matches' = c.matches
                   /\ failed' = IF read.ok THEN failed
                                ELSE failed \cup {"csv"}
                   /\ parsed' = IF read.ok THEN read.data ELSE <<>>
          /\ did' = did \cup {"csv"}
          /\ incidentKey' = ClassifyTitle("postA", title)
          /\ ruleMatch' = RuleMatchOf(title)
          /\ IF req.apiKey THEN pc' = "grok" /\ UNCHANGED <<timerArmed, resp>>
             ELSE Catch
       \/ /\ kind = "postB"
          /\ finalFaultA' = Fin(FallbackAvgPostB)
          /\ confidence' = "Low"
          /\ matches' = <<>>
          /\ failed' = failed \cup {"csv"}
          /\ pc' = "grok"
          /\ UNCHANGED <<did, incidentKey, ruleMatch, timerArmed, resp,
                         parsed>>
    /\ UNCHANGED <<delay, kind, req, aborted, title, proTip, i, payload,
                   baseline>>

\* handler: the fetch of tips2.txt is started
TipStart ==
    /\ pc = "tip"
    /\ IF aborted
       THEN pc' = "grok" /\ failed' = failed \cup {"tip"} /\ UNCHANGED did
       ELSE pc' = "tipWait" /\ did' = did \cup {"tip"} /\ UNCHANGED failed
    /\ UNCHANGED <<parsed, delay,
                   kind, req, timerArmed, aborted, title, incidentKey,
                   ruleMatch, finalFaultA, confidence, matches, proTip, i,
                   payload, baseline, resp>>

\* lines 119-130 without the try, a failed tip fetch reaching the catch block
TipDoneNoTry ==
    /\ pc = "tipWait"
    /\ \/ /\ ~aborted
          /\ \E t \in TipsServed : proTip' = t
          /\ pc' = "grok"
          /\ UNCHANGED <<failed, timerArmed, resp>>
       \/ /\ ~aborted
          /\ pc' = "grok"
          /\ UNCHANGED <<proTip, failed, timerArmed, resp>>
       \/ /\ failed' = failed \cup {"tip"}
          /\ Catch
          /\ UNCHANGED proTip
    /\ UNCHANGED <<parsed, delay,
                   kind, req, aborted, title, incidentKey, ruleMatch,
                   finalFaultA, confidence, matches, i, payload, baseline,
                   did>>

\* handler: the fetch of tips2.txt settles
TipDone ==
    /\ pc = "tipWait"
    /\ \/ /\ ~aborted
          /\ \E t \in TipsServed : proTip' = t
          /\ UNCHANGED failed
       \/ /\ ~aborted
          /\ UNCHANGED <<proTip, failed>>
       \/ /\ failed' = failed \cup {"tip"}
          /\ UNCHANGED proTip
    /\ pc' = "grok"
    /\ UNCHANGED <<parsed, delay,
                   kind, req, timerArmed, aborted, title, incidentKey,
                   ruleMatch, finalFaultA, confidence, matches, i, payload,
                   baseline, resp, did>>

\* line 27: setTimeout(r, 1000 * (i + 1))
Backoff(n) == 1000 * (n + 1)

\* the attempts a handler makes at the narrative service
AttemptsOf(k) == IF k = "handler" THEN Retries ELSE 1

\* an attempt of the narrative call failed by a throw: fetchWithRetry goes on
\* to the next attempt or rethrows, POST throws
AttemptThrew ==
    IF i < AttemptsOf(kind) - 1
    THEN /\ i' = i + 1
         /\ pc' = "grok"
         /\ UNCHANGED <<timerArmed, resp, failed>>
    ELSE /\ Catch
         /\ failed' = failed \cup {"grok"}
         /\ UNCHANGED i

\* an attempt at the narrative service is started
GrokStart ==
    /\ pc = "grok"
    /\ IF aborted
       THEN AttemptThrew /\ UNCHANGED did
       ELSE /\ pc' = "grokWait"
            /\ did' = did \cup {"grok"}
            /\ UNCHANGED <<timerArmed, resp, failed, i>>
    /\ UNCHANGED <<parsed, delay,
                   kind, req, aborted, title, incidentKey, ruleMatch,
                   finalFaultA, confidence, matches, proTip, payload,
                   baseline>>

\* an attempt at the narrative service settles
GrokDone ==
    /\ pc = "grokWait"
    /\ \/ /\ ~aborted
          /\ timerArmed' = FALSE
          /\ pc' = "grokBody"
          /\ UNCHANGED <<resp, failed, i, delay>>
       \/ /\ ~aborted
          /\ CASE kind = "handler" ->
                    IF i = Retries - 1
                    THEN /\ Catch
                         /\ failed' = failed \cup {"grok"}
                         /\ UNCHANGED delay
                    ELSE /\ pc' = "grokSleep"
                         /\ delay' = Backoff(i)
                         /\ UNCHANGED <<timerArmed, resp, failed>>
               [] kind = "postA" ->
                    /\ timerArmed' = FALSE
                    /\ pc' = "grokText"
                    /\ failed' = failed \cup {"grok"}
                    /\ UNCHANGED <<resp, delay>>
               [] OTHER -> /\ Catch
                           /\ failed' = failed \cup {"grok"}
                           /\ UNCHANGED delay
          /\ UNCHANGED i
       \/ AttemptThrew /\ UNCHANGED delay
    /\ UNCHANGED <<parsed, kind, req, aborted, title, incidentKey, ruleMatch,
                   finalFaultA, confidence, matches, proTip, payload,
                   baseline, did>>

\* fetchWithRetry: the delay after a response that was not ok is over
GrokSleepDone ==
    /\ pc = "grokSleep"
    /\ i' = i + 1
    /\ delay' = 0
    /\ pc' = "grok"
    /\ UNCHANGED <<parsed, kind, req, timerArmed, aborted, title, incidentKey,
                   ruleMatch, finalFaultA, confidence, matches, proTip,
                   payload, baseline, resp, did, failed>>

\* postA: await grok.text() settles, and the error is thrown
GrokText ==
    /\ pc = "grokText"
    /\ Catch
    /\ UNCHANGED <<parsed, delay,
                   kind, req, aborted, title, incidentKey, ruleMatch,
                   finalFaultA, confidence, matches, proTip, i, payload,
                   baseline, did, failed>>

\* the body of the narrative response settles; the verdict is built, overlaid
\* and sent
GrokBody ==
    /\ pc = "grokBody"
    /\ \/ /\ Catch
          /\ failed' = failed \cup {"grokBody"}
          /\ UNCHANGED <<payload, baseline>>
       \/ /\ \E p \in Payloads : payload' = p
          /\ baseline' = BaselineOf
          /\ resp' = Response(200, "verdict",
                              Reconcile(kind, baseline', payload', title),
                              Slice5(matches))
          /\ pc' = "done"
          /\ UNCHANGED <<timerArmed, failed>>
    /\ UNCHANGED <<parsed, delay,
                   kind, req, aborted, title, incidentKey, ruleMatch,
                   finalFaultA, confidence, matches, proTip, i, did>>

\* the deadline passes: controller.abort()
TimerFires ==
    /\ timerArmed
    /\ timerArmed' = FALSE
    /\ aborted' = TRUE
    /\ UNCHANGED <<parsed, delay,
                   kind, req, pc, title, incidentKey, ruleMatch, finalFaultA,
                   confidence, matches, proTip, i, payload, baseline, resp,
                   did, failed>>

Next ==
    \/ Receive
    \/ TitleStart
    \/ TitleDone
    \/ FaultCalc(PipeDatasets)
    \/ TipStart
    \/ TipDone
    \/ GrokStart
    \/ GrokDone
    \/ GrokSleepDone
    \/ GrokText
    \/ GrokBody
    \/ TimerFires

Spec == Init /\ [][Next]_vars

\* the steps the handler takes by itself: they need no answer of a
\* collaborator (the delay of fetchWithRetry is a timer of the runtime)
HandlerStep ==
    \/ Receive
    \/ TitleStart
    \/ FaultCalc(PipeDatasets)
    \/ TipStart
    \/ GrokStart
    \/ GrokSleepDone

\* a pending fetch rejects once its signal is aborted
Cancelled == aborted /\ (TitleDone \/ TipDone \/ GrokDone)

\* the handler runs on, an armed timer fires, an aborted fetch rejects; that
\* a collaborator answers is not assumed
SpecLive ==
    /\ Init /\ [][Next]_vars
    /\ WF_vars(HandlerStep)
    /\ WF_vars(TimerFires)
    /\ WF_vars(Cancelled)

-----------------------------------------------------------------------------
(* The fault calculation alone, on the larger datasets: the state is the   *)
(* handler's before its fault calculation, the title step behind it.       *)

InitBaseline ==
    /\ kind \in {"handler", "postA"}
    /\ req \in {r \in RequestsOf(kind) :
                   r.method = "POST" /\ SchemaOk(kind, r) /\ r.apiKey}
    /\ pc = "fault"
    /\ timerArmed = TRUE
    /\ aborted = FALSE
    /\ \/ /\ ~HasVideoId(kind, req.url)
          /\ title = DefaultTitle(kind)
          /\ did = {}
       \/ /\ HasVideoId(kind, req.url)
          /\ title \in TitlesServed \ {""}
          /\ did = {"title"}
    /\ incidentKey = "general contact"
    /\ ruleMatch = 0
    /\ finalFaultA = Fin(InitialFaultA)
    /\ confidence = "Low"
    /\ matches = <<>>
    /\ proTip = DefaultProTip
    /\ i = 0
    /\ payload = NoPayload
    /\ baseline = NoFields
    /\ resp = NoResponse
    /\ failed = {}
    /\ parsed = <<>>
    /\ delay = 0

NextBaseline == FaultCalc(Datasets)

SpecBaseline == InitBaseline /\ [][NextBaseline]_vars

-----------------------------------------------------------------------------
(* The retrieval alone, on datasets longer than the slice.                 *)

RetrieveRequests ==
    {[BaseRequest EXCEPT !.stewardNotes = n] : n \in Notes}

InitRetrieve ==
    /\ kind = "handler"
    /\ req \in RetrieveRequests
    /\ pc = "fault"
    /\ timerArmed = TRUE
    /\ aborted = FALSE
    /\ title = DefaultTitle(kind)
    /\ incidentKey = "general contact"
    /\ ruleMatch = 0
    /\ finalFaultA = Fin(InitialFaultA)
    /\ confidence = "Low"
    /\ matches = <<>>
    /\ proTip = DefaultProTip
    /\ i = 0
    /\ payload = NoPayload
    /\ baseline = NoFields
    /\ resp = NoResponse
    /\ did = {}
    /\ failed = {}
    /\ parsed = <<>>
    /\ delay = 0

NextRetrieve == FaultCalc(RetrieveDatasets)

SpecRetrieve == InitRetrieve /\ [][NextRetrieve]_vars

-----------------------------------------------------------------------------
(* The classification alone, on every listed label, on labels that are not *)
(* listed and on labels that name a property of Object.prototype.          *)

ClassifyLabels ==
    TypeMapLabels
    \cup {"Mystery label", "divebomb", "general contact"}
    \cup {"constructor", "toString", "__proto__"}

ClassifyRequests ==
    {[BaseRequest EXCEPT !.url = u, !.incidentType = l, !.stewardNotes = n,
                         !.override = o] :
        u \in {WatchUrl, PlainUrl}, l \in ClassifyLabels, n \in Notes,
        o \in Overrides}

\* the datasets no row of which contains an incident key: what a row contains
\* is then the same under every label
ClassifyDatasets ==
    {ds \in PipeDatasets : \A j \in 1..Len(ds) : ~ds[j].kw}

InitClassify ==
    /\ kind = "handler"
    /\ req \in ClassifyRequests
    /\ pc = "fault"
    /\ timerArmed = TRUE
    /\ aborted = FALSE
    /\ title = DefaultTitle(kind)
    /\ incidentKey = "general contact"
    /\ ruleMatch = 0
    /\ finalFaultA = Fin(InitialFaultA)
    /\ confidence = "Low"
    /\ matches = <<>>
    /\ proTip = DefaultProTip
    /\ i = 0
    /\ payload = NoPayload
    /\ baseline = NoFields
    /\ resp = NoResponse
    /\ did = {}
    /\ failed = {}
    /\ parsed = <<>>
    /\ delay = 0

NextClassify == FaultCalc(ClassifyDatasets)

SpecClassify == InitClassify /\ [][NextClassify]_vars

-----------------------------------------------------------------------------
(* Properties *)

\* the request passed the method check and the schema
Validated == req.method = "POST" /\ SchemaOk(kind, req)

\* the handler is past its fault calculation
FaultDone ==
    \/ pc \in {"tip", "tipWait", "grok", "grokWait", "grokSleep", "grokText",
               "grokBody"}
    \/ pc = "done" /\ Validated

\* a JSON value is a string `${n}%` with n an integer
IsIntPct(j) == j.t = "pct" /\ j.v.k = "fin" /\ j.v.d = 1

\* a verdict's fault is a pair of integer percentages that sum to 100
FaultPairOk(v) ==
    /\ v["fault"].t = "obj"
    /\ IsIntPct(v["faultA"])
    /\ IsIntPct(v["faultB"])
    /\ v["faultA"].v.n + v["faultB"].v.n = 100

\* the fields of a verdict the claims speak of
CoreFields == TextFields \cup {"fault", "faultA", "faultB"}

SameCore(v, w) == \A f \in CoreFields : v[f] = w[f]

\* C1: for every validated request of the steward handler, whatever the
\* dataset holds, party A's baseline fault is an integer in [2,98] and party
\* B's is 100 minus it.
C1_BaselineFaultInRange ==
    (kind = "handler" /\ FaultDone) =>
        /\ finalFaultA.k = "fin"
        /\ finalFaultA.d = 1
        /\ 2 <= finalFaultA.n /\ finalFaultA.n <= 98
        /\ BaselineOf["faultA"] = Pct(finalFaultA)
        /\ FaultPairOk(BaselineOf)

\* C2: in every 200 response the verdict's fault pair is two integer
\* percentages summing to 100: the narrative's pair is taken only if it is
\* such a pair, and the baseline's pair is returned otherwise.
C2_SuccessFaultPairValid ==
    (kind \in {"handler", "postB"} /\ resp.status = 200) =>
        /\ FaultPairOk(resp.verdict)
        /\ ~FaultPairOk(payload.obj) =>
              /\ resp.verdict["faultA"] = baseline["faultA"]
              /\ resp.verdict["faultB"] = baseline["faultB"]

\* C3: with a valid override supplied, the verdict returned has party A's
\* fault equal to round(overrideFaultA) clamped to [2,98] and confidence
\* Human Override.
C3_OverrideDecidesVerdict ==
    (kind = "handler" /\ resp.status = 200 /\ req.override.present) =>
        LET r == (req.override.x2 + 1) \div 2
            c == IF r < 2 THEN 2 ELSE IF r > 98 THEN 98 ELSE r
        IN /\ resp.verdict["faultA"] = Pct(Fin(c))
           /\ resp.verdict["confidence"] = Str("Human Override")

\* C4: a request whose body fails validation is answered with a 400-class
\* status, and no collaborator was called for it.
C4_InvalidBodyGets400 ==
    (kind = "handler" /\ pc = "done" /\ req.method = "POST"
        /\ ~SchemaOk(kind, req)) =>
        /\ resp.status >= 400 /\ resp.status <= 499
        /\ did = {}

\* C5: when the call to the narrative service failed, the request ends as a
\* 200 response with the baseline verdict and the computed matches.
C5_NarrativeFailureDegrades ==
    (kind = "handler" /\ pc = "done" /\ "grok" \in failed) =>
        /\ resp.status = 200
        /\ SameCore(resp.verdict, BaselineOf)
        /\ resp.matches = matches

\* C6: when the narrative's text is empty or is no JSON, the response is a
\* 200 whose rule, fault, car identification, explanation, pro tip and
\* confidence are the baseline's.
C6_UnparseableKeepsBaseline ==
    (pc = "done" /\ payload.kind \in {"empty", "invalid"}) =>
        /\ resp.status = 200
        /\ SameCore(resp.verdict, baseline)
        /\ baseline = BaselineOf
        /\ resp.verdict["confidence"] = Str(confidence)
        /\ kind = "handler" => resp.verdict["pro_tip"] = Str(proTip)

C6_Witness ==
    /\ pc = "done" /\ kind = "handler" /\ resp.status = 200
    /\ payload.kind = "invalid"
    /\ proTip # DefaultProTip
    /\ matches # <<>>

\* a payload field that is present and well-typed: a non-empty string
WellTyped(j) == IsString(j) /\ j.s # ""

\* C7: for a parsed payload whose fault pair sums to 100, each field of the
\* verdict is the payload's when that is present and well-typed and the
\* baseline's otherwise, field by field.
C7_FieldwiseReconcile ==
    (kind \in {"handler", "postB"} /\ resp.status = 200
        /\ payload.kind = "object" /\ FaultPairOk(payload.obj)) =>
        /\ resp.verdict["faultA"] = payload.obj["faultA"]
        /\ resp.verdict["faultB"] = payload.obj["faultB"]
        /\ \A f \in (IF kind = "handler" THEN TextFields
                     ELSE TextFields \ {"pro_tip"}) :
              resp.verdict[f] = IF WellTyped(payload.obj[f])
                                THEN payload.obj[f] ELSE baseline[f]

\* the order of the confidence labels
Rank(c) ==
    CASE c = "Low" -> 0
      [] c = "Medium" -> 1
      [] c = "High" -> 2
      [] c = "Very High" -> 3
      [] OTHER -> 4

\* C8: the steward handler's confidence is Human Override with an override,
\* and otherwise Very High for 4 or more matches, High for 2 or 3, Medium
\* for 1, Low for none; it never falls when the match count grows.
C8_ConfidenceByMatchCount ==
    /\ (kind = "handler" /\ FaultDone) =>
          LET n == Len(matches)
          IN confidence =
               IF req.override.present THEN "Human Override"
               ELSE IF n >= 4 THEN "Very High"
               ELSE IF n \in {2, 3} THEN "High"
               ELSE IF n = 1 THEN "Medium"
               ELSE "Low"
    /\ \A n \in 0..Len(matches) :
          Rank(ConfidenceOf(n)) <= Rank(ConfidenceOf(n + 1))

C8_Witness ==
    /\ kind = "handler" /\ pc = "tip" /\ ~req.override.present
    /\ Len(matches) >= 4
    /\ confidence = "Very High"

\* C9: every 500 response carries a verdict with rule, fault, car
\* identification, explanation, a tip field and confidence "N/A", and no
\* matches.
C9_ErrorVerdictFullyShaped ==
    resp.status = 500 =>
        /\ {"rule", "fault", "car_identification", "explanation",
            "confidence"} \subseteq KeysOf(resp.verdict)
        /\ \/ "pro_tip" \in KeysOf(resp.verdict)
           \/ {"overtake_tip", "defend_tip"} \subseteq KeysOf(resp.verdict)
        /\ resp.verdict["confidence"] = Str("N/A")
        /\ resp.matches = <<>>

\* C10: in the steward handler a failed title fetch, tip fetch or dataset
\* read leaves the generic title, the default pro tip, resp. the prior 60/40
\* with confidence Low and no matches, and sends no response: a validated
\* request is answered only from the narrative step on.
C10_CollaboratorFailureRecovered ==
    kind = "handler" =>
        /\ "title" \in failed => title = "Sim racing incident"
        /\ "tip" \in failed => proTip = DefaultProTip
        /\ "csv" \in failed =>
              /\ finalFaultA = Fin(60)
              /\ BaselineOf["faultB"] = Pct(Fin(40))
              /\ confidence = "Low"
              /\ matches = <<>>
        /\ (pc = "done" /\ Validated) => "grok" \in (did \cup failed)
        /\ (pc = "done" /\ Validated /\ ~aborted) => "grok" \in did

C10_Witness ==
    /\ kind = "handler"
    /\ {"title", "tip", "csv"} \subseteq failed
    /\ resp.status = 200
    /\ resp.verdict["faultA"] = Pct(Fin(60))
    /\ resp.verdict["video_title"] = Str("Sim racing incident")

\* the canonical incident keys
CanonicalKeys == {typeMap(l) : l \in TypeMapLabels} \cup {"general contact"}

\* C11: the classifier is total into the key enumeration: each of the ten
\* listed labels gets its own canonical key, every other label gets general
\* contact, and no label gets a value outside the enumeration.
C11_ClassifierTotal ==
    /\ Cardinality({typeMap(l) : l \in TypeMapLabels}) = 10
    /\ (kind = "handler" /\ pc = "tip") =>
          /\ incidentKey \in CanonicalKeys
          /\ req.incidentType \in TypeMapLabels =>
                incidentKey = typeMap(req.incidentType)
          /\ req.incidentType \notin TypeMapLabels =>
                incidentKey = "general contact"

\* the matches whose fault_pct_driver_a parses as a number, by position
Numeric(ms) == {j \in 1..Len(ms) : ~IsNaN(ParseFloat(ms[j].row.fault))}

RECURSIVE SumOver(_, _)
\* the sum of the finite values at the positions J of ms
SumOver(ms, J) ==
    IF J = {} THEN 0
    ELSE LET j == CHOOSE x \in J : TRUE
         IN ParseFloat(ms[j].row.fault).n + SumOver(ms, J \ {j})

\* n clamped to [2,98]
Clamped(n) == IF n < 2 THEN 2 ELSE IF n > 98 THEN 98 ELSE n

\* the steward handler has computed a fault from a dataset it could read
FromDataset ==
    /\ kind = "handler" /\ pc = "tip"
    /\ ~req.override.present
    /\ "csv" \notin failed

ScoreAt(j) == Score("handler", parsed[j], HumanInput(req))

\* the rows that have a title and a score greater than 0, by position
Candidates == {j \in 1..Len(parsed) : parsed[j].title /\ ScoreAt(j) > 0}

\* row j ranks before row k: a higher score, or the same score and earlier
Before(j, k) == ScoreAt(j) > ScoreAt(k) \/ (ScoreAt(j) = ScoreAt(k) /\ j < k)

\* the place of candidate j in the ranking
Place(j) == Cardinality({k \in Candidates : Before(k, j)}) + 1

\* C13: the matches are the first 5 (or fewer) of the records that have a
\* title and a score above 0, by score descending, equal scores in dataset
\* order; being a function of dataset and query, the list is the same for
\* the same inputs.
C13_TopFiveStable ==
    FromDataset =>
        /\ Len(matches) = IF Cardinality(Candidates) < 5
                          THEN Cardinality(Candidates) ELSE 5
        /\ \A j \in Candidates :
              Place(j) <= 5 =>
                  matches[Place(j)] = [row |-> parsed[j], score |-> ScoreAt(j)]

\* six candidates, the best one read last, two different rows tying
C13_Witness ==
    /\ FromDataset
    /\ Cardinality(Candidates) = 6
    /\ Len(matches) = 5
    /\ Place(6) = 1
    /\ \E p \in 1..4 : /\ matches[p].score = matches[p + 1].score
                        /\ matches[p].row # matches[p + 1].row

\* C14: the retried narrative call makes at most 3 attempts, none after an
\* attempt that returned an OK response, fails once the last attempt has
\* failed, and every re-attempt, after a response that was not OK as after a
\* thrown error, follows a backoff delay that grows with the attempt number.
C14_RetryWithBackoff ==
    /\ [](kind = "handler" =>
            /\ i + 1 <= 3
            /\ "grok" \in failed => (pc = "done" /\ resp.status = 500))
    /\ [][kind = "handler" =>
            /\ pc \in {"grokBody", "done"} => pc' \notin {"grok", "grokWait"}
            /\ i' # i => /\ i' = i + 1
                         /\ pc = "grokSleep"
                         /\ delay = 1000 * i']_vars

\* C15: once the deadline has fired, the steward handler starts no further
\* network call (title, tip, narrative attempt or retry), and the request
\* returns the locally computed baseline verdict.
C15_AbortKeepsBaseline ==
    /\ [][(kind = "handler" /\ aborted) =>
            (did' \ did) \cap {"title", "tip", "grok"} = {}]_vars
    /\ [](kind = "handler" /\ aborted /\ pc = "done" =>
            /\ resp.status = 200
            /\ SameCore(resp.verdict, BaselineOf)
            /\ resp.matches = matches)

\* C16: every request gets exactly one response: each outbound wait of the
\* handler completes or is cancelled by the deadline, so the handler never
\* waits for ever on a collaborator that does not answer.
C16_EveryRequestAnswered ==
    /\ kind \in {"handler", "postA"} => <>(pc = "done" /\ resp.status # 0)
    /\ [][resp.status # 0 => resp' = resp]_vars

\* C17: on every path by which a handler sends a response, the deadline
\* timer is disarmed by the time the response is sent: none stays armed
\* after the request has completed.
C17_TimerDisarmedAtResponse ==
    (kind \in {"handler", "postA"} /\ resp.status # 0) => ~timerArmed

\* C18: in the steward handler the fault split, the confidence label and the
\* matches are a function of the validated request and the dataset read:
\* whatever the title service and the tip service returned, and whether
\* their calls failed, the same request and dataset give the same three.
C18_BaselineIgnoresServices ==
    (kind = "handler" /\ FaultDone /\ Validated) =>
        LET read == IF "csv" \in failed THEN ReadFailed ELSE ReadOk(parsed)
            c == FaultCalculation(req, read)
        IN /\ finalFaultA = c.finalFaultA
           /\ confidence = c.confidence
           /\ matches = c.matches

\* a run in which the title fetch failed and the tip service served a tip
C18_Witness ==
    /\ kind = "handler" /\ pc = "done" /\ resp.status = 200
    /\ "title" \in failed
    /\ "tip" \in did /\ proTip # DefaultProTip
    /\ ~req.override.present
    /\ matches # <<>>

====
